---- MODULE Spec2Model ----
(***************************************************************************)
(* Model of the configuration resolver (src/config.py) and of the process  *)
(* bootstrap (src/app.py) of the JRebel license server.                    *)
(*                                                                         *)
(* Python values are tagged records [kind, val]; an exception leaving a    *)
(* call is the value Raise(name).  The collaborators (KengerClient,        *)
(* ServiceRegistry, the remote configuration service) are external: every  *)
(* outcome their interface allows is a nondeterministic choice.            *)
(* json.loads and int are modelled by their documented contract (a value,  *)
(* or JSONDecodeError / ValueError); interpreter resource limits           *)
(* (MemoryError, RecursionError, the integer digit limit) are outside the  *)
(* model.                                                                  *)
(***************************************************************************)
EXTENDS Integers, Sequences, FiniteSets, TLC

VARIABLES
    pc,                   \* position of the process in its startup sequence
    env,                  \* os.environ
    lookup,               \* the last kenger_client.config.get(key) and its outcome
    kenger_client,        \* config.kenger_client
    CONFIG_SERVER_TOKEN,  \* config.CONFIG_SERVER_TOKEN
    SECRET_KEY,           \* config.SECRET_KEY
    API_TOKENS,           \* config.API_TOKENS
    MYSQL_CONFIG,         \* config.MYSQL_CONFIG
    resolutions,          \* how many times the module-level resolution completed
    app,                  \* app.app (its config['SECRET_KEY'])
    _service_registry,    \* app._service_registry
    from_env,             \* outcome of ServiceRegistry.from_env
    start_calls,          \* how many times registry.start() was invoked
    registry_state,       \* lifecycle of the registry as this process drives it
    exc,                  \* the exception that left the startup sequence, if any
    requests,             \* requests served so far
    call                  \* the last get_config_value call: arguments and result

vars == <<pc, env, lookup, kenger_client, CONFIG_SERVER_TOKEN, SECRET_KEY,
          API_TOKENS, MYSQL_CONFIG, resolutions, app, _service_registry,
          from_env, start_calls, registry_state, exc, requests, call>>

\* Requests the model serves once the HTTP server is up.
MaxRequests == 1

\* app.py 65: the port the server listens on when PORT is not set
DefaultPort == 58080

----------------------------------------------------------------------------
\* Python values

None_ == [kind |-> "none"]
Str(s) == [kind |-> "str", val |-> s]
Int_(n) == [kind |-> "int", val |-> n]
List(q) == [kind |-> "list", val |-> q]
Dict(f) == [kind |-> "dict", val |-> f]
Raise(name) == [kind |-> "raise", val |-> name]
EmptyDict == Dict([k \in {} |-> None_])

\* Not a Python value: a name that has not been assigned / a call not made yet.
Unset == [kind |-> "unset"]

\* bool(v)
Truthy(v) ==
    CASE v.kind = "none" -> FALSE
      [] v.kind = "str"  -> v.val # ""
      [] v.kind = "int"  -> v.val # 0
      [] v.kind = "list" -> Len(v.val) > 0
      [] v.kind = "dict" -> DOMAIN v.val # {}
      [] OTHER           -> TRUE

\* isinstance(v, str), isinstance(v, list)
IsStr(v) == v.kind = "str"
IsList(v) == v.kind = "list"

----------------------------------------------------------------------------
\* Library functions, on the strings the model draws its inputs from

MysqlFullJson == "{\"host\":\"db\",\"port\":3306,\"db\":\"x\",\"user\":\"u\",\"password\":\"p\"}"
MysqlPartialJson == "{\"host\":\"db\"}"
MysqlFullDict ==
    Dict([host |-> Str("db"), port |-> Int_(3306), db |-> Str("x"),
          user |-> Str("u"), password |-> Str("p")])
MysqlPartialDict == Dict([host |-> Str("db")])

\* json.loads(s): the decoded value, or JSONDecodeError
json_loads(s) ==
    CASE s = "[\"t1\",\"t2\"]" -> List(<<Str("t1"), Str("t2")>>)
      [] s = "[]"              -> List(<<>>)
      [] s = "5"               -> Int_(5)
      [] s = "\"quoted\""      -> Str("quoted")
      [] s = "{\"a\":1}"       -> Dict([a |-> Int_(1)])
      [] s = "null"            -> None_
      [] s = MysqlFullJson     -> MysqlFullDict
      [] s = MysqlPartialJson  -> MysqlPartialDict
      [] s \in {"", "plain-token", "not json"} -> Raise("JSONDecodeError")

\* int(s) of a string: the integer, or ValueError
int_(s) ==
    CASE s = "3306" -> Int_(3306)
      [] s = "8080" -> Int_(8080)
      [] s \in {"", "abc"} -> Raise("ValueError")

\* os.environ.get(name), os.environ.get(name, default)
environ_get(e, name) == e[name]
environ_get_default(e, name, default) ==
    IF e[name] = None_ THEN default ELSE e[name]

----------------------------------------------------------------------------
\* Inputs: the environment and the remote configuration service

Environments ==
    [CONFIG_SERVER_TOKEN  : {None_, Str("tok")},
     SECRET_KEY           : {None_, Str("s3cret")},
     KENGER_REGISTRY_HOST : {None_, Str(""), Str("1.2.3.4")},
     KENGER_REGISTRY_PORT : {None_, Str(""), Str("58080")},
     MYSQL_HOST           : {None_, Str("db")},
     MYSQL_PORT           : {None_, Str("3306"), Str("abc")},
     MYSQL_DB             : {None_, Str("x")},
     MYSQL_USER           : {None_, Str("u")},
     MYSQL_PASSWORD       : {Str(""), Str("p")},
     PORT                 : {None_, Str("8080"), Str("abc")}]

\* No variable set at all
NoEnvironment ==
    [CONFIG_SERVER_TOKEN |-> None_, SECRET_KEY |-> None_,
     KENGER_REGISTRY_HOST |-> None_, KENGER_REGISTRY_PORT |-> None_,
     MYSQL_HOST |-> None_, MYSQL_PORT |-> None_, MYSQL_DB |-> None_,
     MYSQL_USER |-> None_, MYSQL_PASSWORD |-> None_, PORT |-> None_]

\* What kenger_client.config.get('api_tokens') may answer
ApiTokenResponses ==
    {None_, Raise("ConnectionError"),
     Str(""), Str("plain-token"), Str("[\"t1\",\"t2\"]"), Str("[]"), Str("5"),
     Str("\"quoted\""), Str("{\"a\":1}"), Str("null"),
     List(<<Str("t1")>>), List(<<>>), Int_(7), Dict([a |-> Int_(1)])}

\* What kenger_client.config.get('mysql.config') may answer
MysqlResponses ==
    {None_, Raise("ConnectionError"),
     Str(""), Str("not json"), Str(MysqlFullJson), Str(MysqlPartialJson),
     Str("null"), MysqlFullDict, MysqlPartialDict, EmptyDict}

Client == [kind |-> "client"]
Registry(e) ==
    [kind |-> "registry",
     val |-> [host |-> environ_get(e, "KENGER_REGISTRY_HOST"),
              port |-> environ_get(e, "KENGER_REGISTRY_PORT")]]

----------------------------------------------------------------------------
\* src/config.py

DefaultConfigServerToken == Str("u2InTXnmFF0Um6Sd")
DefaultSecretKey == Str("jrebel-license-server-secret")

\* get_config_value testing "if value:" instead of "if value is not None:"
get_config_value_truthy(client, rem, key, default) ==
    IF client # None_
    THEN LET value == rem[key] IN
         IF value.kind = "raise" THEN default
         ELSE IF Truthy(value) THEN value
         ELSE default
    ELSE default

\* rem[key] is the outcome of kenger_client.config.get(key)
get_config_value(client, rem, key, default) ==
    IF client # None_
    THEN LET value == rem[key] IN
         IF value.kind = "raise" THEN default
         ELSE IF value # None_ THEN value
         ELSE default
    ELSE default

\* get_api_tokens falling back to the default when the string is not JSON
get_api_tokens_drop_plain(client, rem, token) ==
    LET tokens_value == get_config_value(client, rem, "api_tokens", None_) IN
    IF Truthy(tokens_value)
    THEN IF IsStr(tokens_value)
         THEN LET tokens == json_loads(tokens_value.val) IN
              IF tokens.kind = "raise" THEN List(<<token>>)
              ELSE IF IsList(tokens) THEN tokens
              ELSE List(<<token>>)
         ELSE IF IsList(tokens_value) THEN tokens_value
         ELSE List(<<token>>)
    ELSE List(<<token>>)

\* get_api_tokens without the isinstance(tokens, list) test on the parsed value
get_api_tokens_any_json(client, rem, token) ==
    LET tokens_value == get_config_value(client, rem, "api_tokens", None_) IN
    IF Truthy(tokens_value)
    THEN IF IsStr(tokens_value)
         THEN LET tokens == json_loads(tokens_value.val) IN
              IF tokens.kind = "raise" THEN List(<<tokens_value>>)
              ELSE tokens
         ELSE IF IsList(tokens_value) THEN tokens_value
         ELSE List(<<token>>)
    ELSE List(<<token>>)

get_api_tokens(client, rem, token) ==
    LET tokens_value == get_config_value(client, rem, "api_tokens", None_) IN
    IF Truthy(tokens_value)
    THEN IF IsStr(tokens_value)
         THEN LET tokens == json_loads(tokens_value.val) IN
              IF tokens.kind = "raise" THEN List(<<tokens_value>>)
              ELSE IF IsList(tokens) THEN tokens
              ELSE List(<<token>>)
         ELSE IF IsList(tokens_value) THEN tokens_value
         ELSE List(<<token>>)
    ELSE List(<<token>>)

\* The remote half of get_mysql_config: the value it returns, or Unset when
\* control falls through to the environment.
mysql_from_remote(client, rem) ==
    IF client # None_
    THEN LET mysql_config_str == rem["mysql.config"] IN
         IF mysql_config_str.kind = "raise" THEN Unset
         ELSE IF Truthy(mysql_config_str)
              THEN IF IsStr(mysql_config_str)
                   THEN LET mysql_config == json_loads(mysql_config_str.val) IN
                        IF mysql_config.kind = "raise" THEN Unset
                        ELSE mysql_config
                   ELSE mysql_config_str
              ELSE Unset
    ELSE Unset

MysqlEnvNames ==
    [host |-> "MYSQL_HOST", port |-> "MYSQL_PORT", db |-> "MYSQL_DB",
     user |-> "MYSQL_USER", password |-> "MYSQL_PASSWORD"]

\* The environment half of get_mysql_config; int() may raise.
mysql_from_env(e) ==
    LET env_config == [f \in DOMAIN MysqlEnvNames |-> environ_get(e, MysqlEnvNames[f])] IN
    IF \A f \in DOMAIN env_config : Truthy(env_config[f])
    THEN LET port == int_(env_config["port"].val) IN
         IF port.kind = "raise" THEN port
         ELSE Dict([env_config EXCEPT !["port"] = port])
    ELSE None_

get_mysql_config(client, rem, e) ==
    LET remote_config == mysql_from_remote(client, rem) IN
    IF remote_config # Unset THEN remote_config ELSE mysql_from_env(e)

\* init_service_registry skipping only when both variables are missing
init_service_registry_either(client, e, made) ==
    IF client = None_ THEN None_
    ELSE LET registry_host == environ_get(e, "KENGER_REGISTRY_HOST")
             registry_port == environ_get(e, "KENGER_REGISTRY_PORT") IN
         IF ~Truthy(registry_host) /\ ~Truthy(registry_port) THEN None_
         ELSE IF made.kind = "raise" THEN None_
         ELSE made

\* made is the outcome of ServiceRegistry.from_env(kenger_client)
init_service_registry(client, e, made) ==
    IF client = None_ THEN None_
    ELSE LET registry_host == environ_get(e, "KENGER_REGISTRY_HOST")
             registry_port == environ_get(e, "KENGER_REGISTRY_PORT") IN
         IF ~Truthy(registry_host) \/ ~Truthy(registry_port) THEN None_
         ELSE IF made.kind = "raise" THEN None_
         ELSE made


----------------------------------------------------------------------------
\* The startup sequence: import of config (src/config.py, top to bottom), then
\* src/app.py from create_app() on.

Init ==
    /\ pc = "kenger_client"
    /\ env \in Environments
    /\ lookup = Unset
    /\ kenger_client = None_
    /\ CONFIG_SERVER_TOKEN = Unset
    /\ SECRET_KEY = Unset
    /\ API_TOKENS = Unset
    /\ MYSQL_CONFIG = Unset
    /\ resolutions = 0
    /\ app = Unset
    /\ _service_registry = None_
    /\ from_env = Unset
    /\ start_calls = 0
    /\ registry_state = "Unconfigured"
    /\ exc = None_
    /\ requests = 0
    /\ call = Unset

\* config.py 16-28: the token, then KengerClient(...), which may raise
InitKengerClient ==
    /\ pc = "kenger_client"
    /\ CONFIG_SERVER_TOKEN' =
           environ_get_default(env, "CONFIG_SERVER_TOKEN", DefaultConfigServerToken)
    /\ \E made \in {Client, Raise("ConnectionError")} :
           kenger_client' = IF made.kind = "raise" THEN None_ ELSE made
    /\ pc' = "secret_key"
    /\ UNCHANGED <<env, lookup, SECRET_KEY, API_TOKENS, MYSQL_CONFIG, resolutions,
                   app, _service_registry, from_env, start_calls, registry_state,
                   exc, requests, call>>

\* config.py 122
ResolveSecretKey ==
    /\ pc = "secret_key"
    /\ SECRET_KEY' = environ_get_default(env, "SECRET_KEY", DefaultSecretKey)
    /\ pc' = "api_tokens"
    /\ UNCHANGED <<env, lookup, kenger_client, CONFIG_SERVER_TOKEN, API_TOKENS,
                   MYSQL_CONFIG, resolutions, app, _service_registry, from_env,
                   start_calls, registry_state, exc, requests, call>>

\* config.py 142: API_TOKENS = get_api_tokens()
ResolveApiTokens ==
    /\ pc = "api_tokens"
    /\ \E r \in (IF kenger_client = None_ THEN {Unset} ELSE ApiTokenResponses) :
           /\ lookup' = IF kenger_client = None_ THEN lookup
                        ELSE [key |-> "api_tokens", resp |-> r]
           /\ API_TOKENS' = get_api_tokens(kenger_client,
                                           [k \in {"api_tokens"} |-> r],
                                           CONFIG_SERVER_TOKEN)
    /\ pc' = "mysql_config"
    /\ UNCHANGED <<env, kenger_client, CONFIG_SERVER_TOKEN, SECRET_KEY,
                   MYSQL_CONFIG, resolutions, app, _service_registry, from_env,
                   start_calls, registry_state, exc, requests, call>>

\* config.py 143: MYSQL_CONFIG = get_mysql_config(); an exception leaving it
\* leaves the import of config, and with it the process startup.
ResolveMysqlConfig ==
    /\ pc = "mysql_config"
    /\ \E r \in (IF kenger_client = None_ THEN {Unset} ELSE MysqlResponses) :
           LET result == get_mysql_config(kenger_client,
                                          [k \in {"mysql.config"} |-> r], env) IN
           /\ lookup' = IF kenger_client = None_ THEN lookup
                        ELSE [key |-> "mysql.config", resp |-> r]
           /\ IF result.kind = "raise"
              THEN /\ exc' = result
                   /\ pc' = "crashed"
                   /\ UNCHANGED <<MYSQL_CONFIG, resolutions>>
              ELSE /\ MYSQL_CONFIG' = result
                   /\ resolutions' = resolutions + 1
                   /\ pc' = "create_app"
                   /\ exc' = exc
    /\ UNCHANGED <<env, kenger_client, CONFIG_SERVER_TOKEN, SECRET_KEY, API_TOKENS,
                   app, _service_registry, from_env, start_calls, registry_state,
                   requests, call>>

\* app.py 28-39, 58: app = create_app()
CreateApp ==
    /\ pc = "create_app"
    /\ app' = [SECRET_KEY |-> SECRET_KEY]
    /\ pc' = "init_service_registry"
    /\ UNCHANGED <<env, lookup, kenger_client, CONFIG_SERVER_TOKEN, SECRET_KEY,
                   API_TOKENS, MYSQL_CONFIG, resolutions, _service_registry,
                   from_env, start_calls, registry_state, exc, requests, call>>

\* Whether init_service_registry gets as far as ServiceRegistry.from_env
ReachesFromEnv ==
    /\ kenger_client # None_
    /\ Truthy(environ_get(env, "KENGER_REGISTRY_HOST"))
    /\ Truthy(environ_get(env, "KENGER_REGISTRY_PORT"))

\* app.py 46-47: _service_registry = init_service_registry()
InitServiceRegistry ==
    /\ pc = "init_service_registry"
    /\ \E made \in (IF ReachesFromEnv
                    THEN {Registry(env), Raise("RegistryError")} ELSE {Unset}) :
           /\ from_env' = made
           /\ _service_registry' = init_service_registry(kenger_client, env, made)
    /\ registry_state' = IF _service_registry' # None_ THEN "Constructed"
                         ELSE registry_state
    /\ pc' = "registry_start"
    /\ UNCHANGED <<env, lookup, kenger_client, CONFIG_SERVER_TOKEN, SECRET_KEY,
                   API_TOKENS, MYSQL_CONFIG, resolutions, app, start_calls, exc,
                   requests, call>>

\* start_service_registry trying start() again after it raised
RegistryStart_retry ==
    /\ pc = "registry_start"
    /\ Truthy(_service_registry)
    /\ start_calls' = start_calls + 1
    /\ \E started \in {None_, Raise("RegistryError")} :
           /\ registry_state' = IF started.kind = "raise" THEN registry_state
                                ELSE "Heartbeating"
           /\ pc' = IF started.kind = "raise" THEN "registry_start" ELSE "run"
    /\ UNCHANGED <<env, lookup, kenger_client, CONFIG_SERVER_TOKEN, SECRET_KEY,
                   API_TOKENS, MYSQL_CONFIG, resolutions, app, _service_registry,
                   from_env, exc, requests, call>>

\* app.py 48-50, 53-54: _service_registry.start(), whose exception is logged
RegistryStart ==
    /\ pc = "registry_start"
    /\ Truthy(_service_registry)
    /\ start_calls' = start_calls + 1
    /\ \E started \in {None_, Raise("RegistryError")} :
           registry_state' = IF started.kind = "raise" THEN registry_state
                             ELSE "Heartbeating"
    /\ pc' = "run"
    /\ UNCHANGED <<env, lookup, kenger_client, CONFIG_SERVER_TOKEN, SECRET_KEY,
                   API_TOKENS, MYSQL_CONFIG, resolutions, app, _service_registry,
                   from_env, exc, requests, call>>

\* app.py 51-52: no registry, nothing to start
RegistrySkip ==
    /\ pc = "registry_start"
    /\ ~Truthy(_service_registry)
    /\ pc' = "run"
    /\ UNCHANGED <<env, lookup, kenger_client, CONFIG_SERVER_TOKEN, SECRET_KEY,
                   API_TOKENS, MYSQL_CONFIG, resolutions, app, _service_registry,
                   from_env, start_calls, registry_state, exc, requests, call>>

\* app.py 64-76, run as a script: int(PORT) may raise, then app.run() serves
RunMain ==
    /\ pc = "run"
    /\ LET port == IF environ_get(env, "PORT") = None_ THEN Int_(DefaultPort)
                   ELSE int_(environ_get(env, "PORT").val) IN
       IF port.kind = "raise"
       THEN exc' = port /\ pc' = "crashed"
       ELSE exc' = exc /\ pc' = "serving"
    /\ UNCHANGED <<env, lookup, kenger_client, CONFIG_SERVER_TOKEN, SECRET_KEY,
                   API_TOKENS, MYSQL_CONFIG, resolutions, app, _service_registry,
                   from_env, start_calls, registry_state, requests, call>>

\* app.py 57-61, imported by a WSGI server (gunicorn), which then serves app
RunWsgi ==
    /\ pc = "run"
    /\ pc' = "serving"
    /\ UNCHANGED <<env, lookup, kenger_client, CONFIG_SERVER_TOKEN, SECRET_KEY,
                   API_TOKENS, MYSQL_CONFIG, resolutions, app, _service_registry,
                   from_env, start_calls, registry_state, exc, requests, call>>

\* A request handler that resolves the API tokens again
Serve_reload ==
    /\ pc = "serving"
    /\ requests < MaxRequests
    /\ requests' = requests + 1
    /\ \E r \in (IF kenger_client = None_ THEN {Unset} ELSE ApiTokenResponses) :
           API_TOKENS' = get_api_tokens(kenger_client, [k \in {"api_tokens"} |-> r],
                                        CONFIG_SERVER_TOKEN)
    /\ UNCHANGED <<pc, env, lookup, kenger_client, CONFIG_SERVER_TOKEN, SECRET_KEY,
                   MYSQL_CONFIG, resolutions, app, _service_registry,
                   from_env, start_calls, registry_state, exc, call>>

\* app.py 76: the HTTP server serves a request; the handlers read the constants
Serve ==
    /\ pc = "serving"
    /\ requests < MaxRequests
    /\ requests' = requests + 1
    /\ UNCHANGED <<pc, env, lookup, kenger_client, CONFIG_SERVER_TOKEN, SECRET_KEY,
                   API_TOKENS, MYSQL_CONFIG, resolutions, app, _service_registry,
                   from_env, start_calls, registry_state, exc, call>>

Next ==
    \/ InitKengerClient
    \/ ResolveSecretKey
    \/ ResolveApiTokens
    \/ ResolveMysqlConfig
    \/ CreateApp
    \/ InitServiceRegistry
    \/ RegistryStart
    \/ RegistrySkip
    \/ RunMain
    \/ RunWsgi
    \/ Serve

Spec == Init /\ [][Next]_vars


----------------------------------------------------------------------------
\* get_config_value on its own, for every key, default and remote outcome

ResolveKeys == {"api_tokens", "mysql.config", "feature.flag"}
ResolveDefaults == {None_, Str(""), Str("fallback"), List(<<Str("d")>>)}
ResolveResponses == ApiTokenResponses \cup MysqlResponses

InitResolve ==
    /\ pc = "resolve"
    /\ env = NoEnvironment
    /\ lookup = Unset
    /\ kenger_client \in {None_, Client}
    /\ CONFIG_SERVER_TOKEN = DefaultConfigServerToken
    /\ SECRET_KEY = Unset
    /\ API_TOKENS = Unset
    /\ MYSQL_CONFIG = Unset
    /\ resolutions = 0
    /\ app = Unset
    /\ _service_registry = None_
    /\ from_env = Unset
    /\ start_calls = 0
    /\ registry_state = "Unconfigured"
    /\ exc = None_
    /\ requests = 0
    /\ call = Unset

\* config.py 71-81, called with (key, default) while the remote answers r
CallGetConfigValue ==
    /\ pc = "resolve"
    /\ \E key \in ResolveKeys, default \in ResolveDefaults :
       \E r \in (IF kenger_client = None_ THEN {Unset} ELSE ResolveResponses) :
           call' = [key |-> key, default |-> default, resp |-> r,
                    result |-> get_config_value(kenger_client,
                                                [k \in {key} |-> r], key, default)]
    /\ pc' = "resolved"
    /\ UNCHANGED <<env, lookup, kenger_client, CONFIG_SERVER_TOKEN, SECRET_KEY,
                   API_TOKENS, MYSQL_CONFIG, resolutions, app, _service_registry,
                   from_env, start_calls, registry_state, exc, requests>>

NextResolve == CallGetConfigValue

SpecResolve == InitResolve /\ [][NextResolve]_vars


----------------------------------------------------------------------------
\* Vocabulary of the properties

\* The remote client's constructor raised
ClientConstructionThrew == pc # "kenger_client" /\ kenger_client = None_
\* The last kenger_client.config.get raised
RemoteGetThrew == lookup # Unset /\ lookup.resp.kind = "raise"
\* registry.start() was called and raised
RegistryStartThrew == start_calls = 1 /\ registry_state = "Constructed"

\* API_TOKENS was just assigned; RemoteApiTokens is what the remote answered
\* (Unset when there is no client to ask)
ApiTokensResolved == pc = "mysql_config"
RemoteApiTokens == IF kenger_client = None_ THEN Unset ELSE lookup.resp
DefaultTokens == List(<<CONFIG_SERVER_TOKEN>>)

\* get_mysql_config just ran; RemoteMysql is what the remote answered
MysqlResolved == pc = "create_app" \/ (pc = "crashed" /\ resolutions = 0)
RemoteMysql == IF kenger_client = None_ THEN Unset ELSE lookup.resp

MysqlFields == {"host", "port", "db", "user", "password"}
NonEmpty(v) ==
    CASE v.kind = "none" -> FALSE
      [] v.kind = "str"  -> v.val # ""
      [] v.kind = "int"  -> TRUE
      [] OTHER           -> Truthy(v)
FullyPopulated(v) ==
    /\ v.kind = "dict"
    /\ MysqlFields \subseteq DOMAIN v.val
    /\ \A f \in MysqlFields : NonEmpty(v.val[f])

RegistryHostPortSet ==
    /\ env.KENGER_REGISTRY_HOST \notin {None_, Str("")}
    /\ env.KENGER_REGISTRY_PORT \notin {None_, Str("")}
RegistryInitDone == pc \in {"registry_start", "run", "serving"}

----------------------------------------------------------------------------
\* C1: startup never raises: when the remote client's constructor threw, when
\* the remote get threw, or when the registry's start() threw, the startup
\* sequence does not end in an uncaught exception.
C1_StartupNeverRaises ==
    (ClientConstructionThrew \/ RemoteGetThrew \/ RegistryStartThrew)
        => pc # "crashed"

\* C2: once resolved, the MySQL configuration is absent (None) or a record whose
\* five fields host, port, db, user, password are all present and non-empty,
\* whichever source supplied it.
C2_MysqlFullOrAbsent ==
    MYSQL_CONFIG # Unset => (MYSQL_CONFIG = None_ \/ FullyPopulated(MYSQL_CONFIG))

\* C3 as stated: init_service_registry returns a descriptor if and only if
\* KENGER_REGISTRY_HOST and KENGER_REGISTRY_PORT are both set and non-empty, and
\* with either missing no heartbeat is started.
C3_Original ==
    /\ RegistryInitDone => (_service_registry # None_ <=> RegistryHostPortSet)
    /\ ~RegistryHostPortSet => (start_calls = 0 /\ registry_state = "Unconfigured")

\* C3 as amended: init_service_registry returns a descriptor if and only if the
\* remote client was constructed, KENGER_REGISTRY_HOST and KENGER_REGISTRY_PORT
\* are both set and non-empty, and ServiceRegistry.from_env did not raise; with
\* either variable missing or empty it returns None and start() is never called.
C3_RegistryIffClientHostPort ==
    /\ RegistryInitDone =>
         (_service_registry # None_ <=>
             (kenger_client # None_ /\ RegistryHostPortSet /\ from_env.kind = "registry"))
    /\ ~RegistryHostPortSet =>
         (_service_registry = None_ /\ start_calls = 0
          /\ registry_state = "Unconfigured")

C3_Witness ==
    /\ pc = "serving"
    /\ RegistryHostPortSet
    /\ _service_registry = Registry(env)
    /\ start_calls = 1

\* C4: get_config_value(key, default) returns the remote value whenever the
\* remote answered something other than None, whatever the default, and returns
\* the default when there is no client, the lookup raised or the answer is None;
\* no exception leaves it.
C4_ResolveMatchesReference ==
    call # Unset =>
        /\ call.result.kind # "raise"
        /\ (kenger_client # None_ /\ call.resp.kind \notin {"raise", "none"})
               => call.result = call.resp
        /\ (kenger_client = None_ \/ call.resp.kind \in {"raise", "none"})
               => call.result = call.default

C4_Witness ==
    /\ call # Unset
    /\ kenger_client # None_
    /\ call.resp = Str("")
    /\ call.default = Str("fallback")
    /\ call.result = Str("")

\* C5 as stated: a remote string that parses as a JSON list yields that list, a
\* remote string that is not valid JSON yields the one-element list holding it,
\* a remote list is returned as it is, and an absent remote value yields
\* [CONFIG_SERVER_TOKEN].
C5_Original ==
    ApiTokensResolved =>
        LET r == RemoteApiTokens IN
        /\ (IsStr(r) /\ IsList(json_loads(r.val))) => API_TOKENS = json_loads(r.val)
        /\ (IsStr(r) /\ json_loads(r.val).kind = "raise") => API_TOKENS = List(<<r>>)
        /\ IsList(r) => API_TOKENS = r
        /\ r.kind \in {"unset", "none", "raise"} => API_TOKENS = DefaultTokens

\* C5 as amended: a remote string that parses as a JSON list yields that list, a
\* non-empty remote string that json.loads rejects yields the one-element list
\* holding it, a non-empty remote list is returned as it is, and an absent
\* remote value (None, lookup raised, no client) yields [CONFIG_SERVER_TOKEN].
C5_ApiTokensFromRemote ==
    ApiTokensResolved =>
        LET r == RemoteApiTokens IN
        /\ (IsStr(r) /\ IsList(json_loads(r.val))) => API_TOKENS = json_loads(r.val)
        /\ (IsStr(r) /\ r.val # "" /\ json_loads(r.val).kind = "raise")
               => API_TOKENS = List(<<r>>)
        /\ (IsList(r) /\ r.val # <<>>) => API_TOKENS = r
        /\ r.kind \in {"unset", "none", "raise"} => API_TOKENS = DefaultTokens

C5_Witness ==
    /\ ApiTokensResolved
    /\ RemoteApiTokens = Str("plain-token")
    /\ API_TOKENS = List(<<Str("plain-token")>>)

\* C6: the module-level resolution of API_TOKENS and MYSQL_CONFIG never raises,
\* whatever the remote answers and whatever the environment holds: no exception
\* leaves the startup sequence while the resolution is not complete.
C6_ConfigResolutionNeverRaises == resolutions = 0 => exc.kind # "raise"

C7_LifecycleInv ==
    /\ start_calls \in {0, 1}
    /\ start_calls = 1 <=> (_service_registry # None_ /\ pc # "registry_start")
    /\ start_calls = 1 => registry_state \in {"Constructed", "Heartbeating"}
    /\ registry_state = "Heartbeating" => start_calls = 1
    /\ registry_state # "Unconfigured" <=> _service_registry # None_
    /\ exc.kind = "raise" => exc.val # "RegistryError"
C7_LifecycleStep ==
    /\ registry_state' # registry_state =>
           \/ registry_state = "Unconfigured" /\ registry_state' = "Constructed"
           \/ registry_state = "Constructed" /\ registry_state' = "Heartbeating"
    /\ from_env' # from_env => (from_env = Unset /\ pc' = "registry_start")
    /\ start_calls' # start_calls =>
           /\ start_calls' = start_calls + 1
           /\ registry_state = "Constructed"
           /\ pc' = "run"

\* C7: the registry goes Unconfigured -> Constructed -> Heartbeating only;
\* start() is called exactly once when init_service_registry returned a
\* descriptor and never when it returned None, never before the descriptor
\* exists, and an exception from ServiceRegistry.from_env or from start() is
\* neither re-raised nor followed by a retry: the process goes on to the next
\* statement.
C7_RegistryLifecycle == [](C7_LifecycleInv) /\ [][C7_LifecycleStep]_vars

C7_Witness ==
    /\ pc = "serving"
    /\ RegistryStartThrew
    /\ requests > 0

ConfigResolved ==
    /\ resolutions = 1
    /\ pc \notin {"kenger_client", "secret_key", "api_tokens", "mysql_config"}
    /\ Unset \notin {CONFIG_SERVER_TOKEN, SECRET_KEY, API_TOKENS, MYSQL_CONFIG}
C8_OrderInv ==
    /\ resolutions \in {0, 1}
    /\ API_TOKENS # Unset => (SECRET_KEY # Unset /\ CONFIG_SERVER_TOKEN # Unset)
    /\ MYSQL_CONFIG # Unset => API_TOKENS # Unset
    /\ (from_env # Unset \/ start_calls > 0 \/ registry_state # "Unconfigured"
        \/ pc \in {"init_service_registry", "registry_start", "run", "serving"})
           => (ConfigResolved /\ app # Unset)
    /\ requests > 0 => pc = "serving"
    /\ pc = "serving" => (ConfigResolved /\ (_service_registry # None_ => start_calls = 1))
C8_ConstantsStep ==
    resolutions = 1 =>
        /\ resolutions' = 1
        /\ UNCHANGED <<CONFIG_SERVER_TOKEN, SECRET_KEY, API_TOKENS, MYSQL_CONFIG>>

\* C8: configuration resolution (client, then SECRET_KEY, API_TOKENS and
\* MYSQL_CONFIG) completes exactly once before the registry start is attempted,
\* which completes before the server serves; once resolved, the constants
\* never change.
C8_StartupOrder == [](C8_OrderInv) /\ [][C8_ConstantsStep]_vars

C8_Witness ==
    /\ pc = "serving"
    /\ requests = 1
    /\ resolutions = 1
    /\ API_TOKENS = List(<<Str("t1"), Str("t2")>>)

\* C9: a usable remote mysql.config is returned as it is whatever the MYSQL_*
\* variables hold; without a client, when the lookup raises, when the value is
\* absent or a string that is not JSON, the result is decided by the five
\* variables alone: the complete record, or None if any of them is empty.
C9_MysqlPrecedence ==
    MysqlResolved =>
        LET r == RemoteMysql
            fell == \/ r.kind \in {"unset", "none", "raise"}
                    \/ IsStr(r) /\ r.val # "" /\ json_loads(r.val).kind = "raise"
            used == ~fell /\ Truthy(r)
            complete == \A n \in MysqlFields :
                            env[MysqlEnvNames[n]] \notin {None_, Str("")}
        IN
        /\ used => MYSQL_CONFIG = (IF IsStr(r) THEN json_loads(r.val) ELSE r)
        /\ (fell /\ ~complete) => MYSQL_CONFIG = None_
        /\ (fell /\ complete) =>
               /\ MYSQL_CONFIG.kind = "dict"
               /\ DOMAIN MYSQL_CONFIG.val = MysqlFields
               /\ \A n \in MysqlFields \ {"port"} :
                      MYSQL_CONFIG.val[n] = env[MysqlEnvNames[n]]

\* C10: get_api_tokens always returns a list, and the default
\* [CONFIG_SERVER_TOKEN] when the remote value is a string of valid JSON that
\* is not a list, a non-empty value that is neither a string nor a list, an
\* empty string or an empty list.
C10_ApiTokensDefault ==
    /\ API_TOKENS # Unset => IsList(API_TOKENS)
    /\ ApiTokensResolved =>
        LET r == RemoteApiTokens IN
        /\ (IsStr(r) /\ json_loads(r.val).kind \notin {"raise", "list"})
               => API_TOKENS = DefaultTokens
        /\ (r.kind \in {"int", "dict"} /\ Truthy(r)) => API_TOKENS = DefaultTokens
        /\ r \in {Str(""), List(<<>>)} => API_TOKENS = DefaultTokens

C10_Witness ==
    /\ ApiTokensResolved
    /\ RemoteApiTokens = Str("{\"a\":1}")
    /\ API_TOKENS = DefaultTokens
    /\ API_TOKENS # List(<<Dict([a |-> Int_(1)])>>)

====
